---- MODULE Spec2Model ----
(***************************************************************************)
(* Waise API (server/index.js): the daily quote quiz.  In-memory state:    *)
(* the quote catalogue, the submission Map, the dayLocks Set.  One action  *)
(* per Express handler; a handler is synchronous JavaScript, so it runs to *)
(* completion, but each call of dayKey reads the wall clock anew.          *)
(***************************************************************************)
EXTENDS Integers, Sequences, FiniteSets, TLC

\* ------------------------------------------------------------------ bounds
MaxDay == 1          \* the wall clock runs over the days 0..MaxDay
MaxRank == 3         \* submissions in the stores the ranking is run on

\* ------------------------------------------------------- program constants
NanoidSize == 12     \* nanoid(12)
MinFill == 1         \* z.string().min(1)
MaxFill == 24        \* z.string().max(24)

\* ------------------------------------------------------------------ values
NoHeader == "<no X-Device-Id header>"   \* req.header(..) is undefined
Null == "<null>"                        \* JavaScript null
Missing == 0 - 1                        \* a body field that is no string
NoSid == <<>>

\* A string is modelled by its characters where the code looks at them
\* (ids: tuples of UTF-16 code units) and by its length where the code
\* only measures it (fillA, fillB).
IdPool ==
  { <<86, 49, 83, 116, 71, 88, 82, 56, 95, 90, 53, 106>>,    \* V1StGXR8_Z5j
    <<86, 49, 83, 116, 71, 88, 82, 56, 95, 90, 53, 74>> }    \* V1StGXR8_Z5J
UnknownSid == <<110, 111, 112, 101>>                         \* nope

Devices == {"dev1", "dev2"}
Headers == {NoHeader, ""} \cup Devices

\* const quotes = { '2025-09-08': {...} }
quotes ==
  [ id \in {"2025-09-08"} |->
      [id |-> id, author |-> "Alan Kay", answerA |-> 2, answerB |-> 2] ]

\* Property names every plain object inherits from Object.prototype.
ObjectPrototypeKeys == {"constructor"}

\* quotes[id], then tested for truthiness: an own record, an inherited
\* member (a function, truthy), or undefined.
QuoteTruthy(id) == id \in DOMAIN quotes \/ id \in ObjectPrototypeKeys

QuoteIds == {"2025-09-08", "does-not-exist"}

\* req.deviceId = did || null
DeviceIdOfRaw(header) == header
DeviceIdOf(header) == IF header = NoHeader \/ header = "" THEN Null ELSE header

\* --------------------------------------------------------------- the clock
Digits == <<"0", "1", "2", "3", "4", "5", "6", "7", "8", "9">>
TwoDigits(n) == Digits[(n \div 10) + 1] \o Digits[(n % 10) + 1]

\* formatISO(startOfDay(new Date()), {representation: 'date'}) on day n of
\* the run; day 0 is 2025-09-08.
FormatDay(n) == "2025-09-" \o TwoDigits(8 + n)

\* dayKey with the clock reading made explicit
DayKeyNoDay(quoteId, deviceId, day) == quoteId \o ":" \o deviceId
dayKey(quoteId, deviceId, day) ==
  quoteId \o ":" \o deviceId \o ":" \o FormatDay(day)

\* ------------------------------------------------------------ SubmitBody
FieldOkExclusive(len) == len # Missing /\ len > MinFill /\ len < MaxFill
FieldOkNoMax(len) == len # Missing /\ len >= MinFill
FieldOk(len) == len # Missing /\ len >= MinFill /\ len <= MaxFill
SafeParse(body) == FieldOk(body.fillA) /\ FieldOk(body.fillB)

VARIABLES
  submissions,   \* the Map, as the sequence of its values in insertion order
  createdOn,     \* submission id -> day on which submissions.set ran
  dayLocks,      \* the Set of lock keys
  acted,         \* <<quoteId, deviceId, day>> of every successful submit/skip
  toggled,       \* <<sid, deviceId>> with an odd number of successful likes
  today,         \* the current calendar day of the wall clock
  last,          \* the last request handled, its response and the state before
  slots          \* two requests in flight at once: each waiting or answered

vars == <<submissions, createdOn, dayLocks, acted, toggled, today, last, slots>>


\* ---------------------------------------------------------------- requests
NoBody == [fillA |-> Missing, fillB |-> Missing]

Bodies == { [fillA |-> 1, fillB |-> 24], [fillA |-> 0, fillB |-> 25] }

Req(kind, header, id, sid, body) ==
  [kind |-> kind, header |-> header, id |-> id, sid |-> sid, body |-> body]

TodayRequests == { Req("today", h, "", NoSid, NoBody) : h \in Headers }
SubmitRequests ==
  { Req("submit", h, q, NoSid, b) : h \in Headers, q \in QuoteIds, b \in Bodies }
SkipRequests == { Req("skip", h, q, NoSid, NoBody) : h \in Headers, q \in QuoteIds }
RankingRequests == { Req("ranking", NoHeader, q, NoSid, NoBody) : q \in QuoteIds }
LikeRequests ==
  { Req("like", h, "", s, NoBody) :
      h \in {NoHeader, "dev2"}, s \in IdPool \cup {UnknownSid} }

NoRequest == Req("none", NoHeader, "", NoSid, NoBody)

\* ------------------------------------------------------------- the stores
Ids(subs) == { subs[i].id : i \in 1..Len(subs) }

\* submissions.get(sid): the index of the record, 0 when there is none
IndexOf(subs, sid) ==
  IF sid \in Ids(subs) THEN CHOOSE i \in 1..Len(subs) : subs[i].id = sid ELSE 0

\* submissions.set(id, record): the value of an existing key is replaced
\* where it stands, a new key is added at the end
MapSetByDevice(subs, rec) ==
  IF \E i \in 1..Len(subs) : subs[i].deviceId = rec.deviceId
    THEN [subs EXCEPT ![CHOOSE i \in 1..Len(subs) : subs[i].deviceId = rec.deviceId] = rec]
    ELSE Append(subs, rec)
MapSet(subs, rec) ==
  IF rec.id \in Ids(subs)
    THEN [subs EXCEPT ![IndexOf(subs, rec.id)] = rec]
    ELSE Append(subs, rec)

\* dayLocks.has(key), dayLocks.add(key)
HasLockNever(locks, key) == FALSE
HasLock(locks, key) == key \in locks
AddLockDropped(locks, key) == locks
AddLockFlips(locks, key) == IF key \in locks THEN locks \ {key} ELSE locks \cup {key}
AddLock(locks, key) == locks \cup {key}

\* if (s.likes.has(d)) s.likes.delete(d); else s.likes.add(d);
ToggleAlwaysAdd(likes, d) == likes \cup {d}
ToggleClears(likes, d) == IF d \in likes THEN {} ELSE likes \cup {d}
Toggle(likes, d) == IF d \in likes THEN likes \ {d} ELSE likes \cup {d}

\* the state a handler started from, kept with its response
Snapshot ==
  [submissions |-> submissions, dayLocks |-> dayLocks, acted |-> acted]

\* day: the clock at the handler's first reading; endDay: at its last
Exchange(req, day, endDay, status, out) ==
  [req |-> req, day |-> day, endDay |-> endDay, status |-> status,
   out |-> out, pre |-> Snapshot]

Message(text) == [message |-> text]

\* ------------------------------------------------------------- the ranking
\* a < b on JavaScript strings: by UTF-16 code unit, a proper prefix first
RECURSIVE StrLess(_, _)
StrLess(a, b) ==
  IF b = <<>> THEN FALSE
  ELSE IF a = <<>> THEN TRUE
  ELSE IF a[1] # b[1] THEN a[1] < b[1]
  ELSE StrLess(Tail(a), Tail(b))

\* (a, b) => b.likes.size - a.likes.size || (a.id < b.id ? 1 : -1)
CompareIdAscending(a, b) ==
  IF Cardinality(b.likes) - Cardinality(a.likes) # 0
    THEN Cardinality(b.likes) - Cardinality(a.likes)
    ELSE IF StrLess(a.id, b.id) THEN 0 - 1 ELSE 1
CompareLikesOnly(a, b) == Cardinality(b.likes) - Cardinality(a.likes)
Compare(a, b) ==
  IF Cardinality(b.likes) - Cardinality(a.likes) # 0
    THEN Cardinality(b.likes) - Cardinality(a.likes)
    ELSE IF StrLess(a.id, b.id) THEN 1 ELSE 0 - 1

\* Array.prototype.sort: a stable insertion of each element in turn
RECURSIVE InsertSorted(_, _)
InsertSorted(sorted, x) ==
  IF sorted = <<>> THEN <<x>>
  ELSE IF Compare(sorted[Len(sorted)], x) > 0
    THEN Append(InsertSorted(SubSeq(sorted, 1, Len(sorted) - 1), x),
                sorted[Len(sorted)])
    ELSE Append(sorted, x)

RECURSIVE SortList(_)
SortList(list) ==
  IF list = <<>> THEN <<>>
  ELSE InsertSorted(SortList(SubSeq(list, 1, Len(list) - 1)), list[Len(list)])

Item(s) ==
  [id |-> s.id, quoteId |-> s.quoteId, fillA |-> s.fillA, fillB |-> s.fillB,
   likes |-> Cardinality(s.likes)]

RankingUnfiltered(subs, id) ==
  LET sorted == SortList(subs)
  IN  [i \in 1..Len(sorted) |-> Item(sorted[i])]
Ranking(subs, id) ==
  LET list == SelectSeq(subs, LAMBDA s : s.quoteId = id)
      sorted == SortList(list)
  IN  [i \in 1..Len(sorted) |-> Item(sorted[i])]

\* ------------------------------------------------------------------- Init
Slots == {1, 2}
NoExchange ==
  [req |-> NoRequest, day |-> 0, endDay |-> 0, status |-> 0, out |-> Message(""),
   pre |-> [submissions |-> <<>>, dayLocks |-> {}, acted |-> {}]]

Idle == [state |-> "idle", req |-> NoRequest, answer |-> NoExchange, nth |-> 0]

Init ==
  /\ submissions = <<>>
  /\ createdOn = <<>>
  /\ dayLocks = {}
  /\ acted = {}
  /\ toggled = {}
  /\ today = 0
  /\ last = NoExchange
  /\ slots = [i \in Slots |-> Idle]

\* --------------------------------------------------------------- handlers
\* app.get('/health')
GetHealth(req) ==
  /\ last' = Exchange(req, today, today, 200, [ok |-> TRUE])
  /\ UNCHANGED <<submissions, createdOn, dayLocks, acted, toggled, today>>

\* app.get('/quotes/today')
GetToday(req) ==
  LET q == quotes["2025-09-08"]
      deviceId == DeviceIdOf(req.header)
      locked == IF deviceId # Null
                  THEN HasLock(dayLocks, dayKey(q.id, deviceId, today))
                  ELSE FALSE
  IN  /\ last' = Exchange(req, today, today, 200, [quote |-> q, locked |-> locked])
      /\ UNCHANGED <<submissions, createdOn, dayLocks, acted, toggled, today>>

\* app.post('/quotes/:id/submissions').  The clock is read at the lock check
\* and again when the lock is added; roll says whether midnight passes in
\* between: 0 no, 1 before submissions.set, 2 after it.  nanoid(12) yields
\* an id that is not in use.
PostSubmission(req) ==
  LET deviceId == DeviceIdOf(req.header)
      id == req.id
  IN  IF deviceId = Null THEN
        /\ last' = Exchange(req, today, today, 400,
                            Message("X-Device-Id header required"))
        /\ UNCHANGED <<submissions, createdOn, dayLocks, acted, toggled, today>>
      ELSE IF ~QuoteTruthy(id) THEN
        /\ last' = Exchange(req, today, today, 404, Message("Quote not found"))
        /\ UNCHANGED <<submissions, createdOn, dayLocks, acted, toggled, today>>
      ELSE IF HasLock(dayLocks, dayKey(id, deviceId, today)) THEN
        /\ last' = Exchange(req, today, today, 409,
                            Message("Already submitted or skipped today"))
        /\ UNCHANGED <<submissions, createdOn, dayLocks, acted, toggled, today>>
      ELSE IF ~SafeParse(req.body) THEN
        /\ last' = Exchange(req, today, today, 400, Message("Invalid body"))
        /\ UNCHANGED <<submissions, createdOn, dayLocks, acted, toggled, today>>
      ELSE
        \E roll \in 0..2, newId \in IdPool \ Ids(submissions) :
          LET setDay == IF roll = 1 THEN today + 1 ELSE today
                 lockDay == IF roll = 0 THEN today ELSE today + 1
             IN  /\ roll # 0 => today < MaxDay
                 /\ Len(newId) = NanoidSize
                 /\ submissions' =
                      MapSet(submissions,
                             [id |-> newId, quoteId |-> id, deviceId |-> deviceId,
                              fillA |-> req.body.fillA, fillB |-> req.body.fillB,
                              likes |-> {}])
                 /\ createdOn' = Append(createdOn, setDay)
                 /\ dayLocks' = AddLock(dayLocks, dayKey(id, deviceId, lockDay))
                 /\ acted' = acted \cup {<<id, deviceId, lockDay>>}
                 /\ UNCHANGED toggled
                 /\ today' = lockDay
                 /\ last' = Exchange(req, today, lockDay, 201, [id |-> newId])

\* app.post('/quotes/:id/skip')
PostSkip(req) ==
  LET deviceId == DeviceIdOf(req.header)
      id == req.id
  IN  IF deviceId = Null THEN
        /\ last' = Exchange(req, today, today, 400,
                            Message("X-Device-Id header required"))
        /\ UNCHANGED <<submissions, createdOn, dayLocks, acted, toggled, today>>
      ELSE IF ~QuoteTruthy(id) THEN
        /\ last' = Exchange(req, today, today, 404, Message("Quote not found"))
        /\ UNCHANGED <<submissions, createdOn, dayLocks, acted, toggled, today>>
      ELSE
        /\ dayLocks' = AddLock(dayLocks, dayKey(id, deviceId, today))
        /\ acted' = acted \cup {<<id, deviceId, today>>}
        /\ last' = Exchange(req, today, today, 204, [empty |-> TRUE])
        /\ UNCHANGED <<submissions, createdOn, toggled, today>>

\* app.get('/quotes/:id/ranking')
GetRanking(req) ==
  /\ last' = Exchange(req, today, today, 200,
                      [items |-> Ranking(submissions, req.id)])
  /\ UNCHANGED <<submissions, createdOn, dayLocks, acted, toggled, today>>

\* app.post('/submissions/:sid/like')
PostLike(req) ==
  LET deviceId == DeviceIdOf(req.header)
      i == IndexOf(submissions, req.sid)
  IN  IF deviceId = Null THEN
        /\ last' = Exchange(req, today, today, 400,
                            Message("X-Device-Id header required"))
        /\ UNCHANGED <<submissions, createdOn, dayLocks, acted, toggled, today>>
      ELSE IF i = 0 THEN
        /\ last' = Exchange(req, today, today, 404, Message("Submission not found"))
        /\ UNCHANGED <<submissions, createdOn, dayLocks, acted, toggled, today>>
      ELSE
        LET likes == Toggle(submissions[i].likes, deviceId)
        IN  /\ submissions' = [submissions EXCEPT ![i].likes = likes]
            /\ last' = Exchange(req, today, today, 200,
                                [likes |-> Cardinality(likes)])
            /\ toggled' = (toggled \ {<<req.sid, deviceId>>})
                           \cup ({<<req.sid, deviceId>>} \ toggled)
            /\ UNCHANGED <<createdOn, dayLocks, acted, today>>

\* new Date() moves into the next calendar day
Tick ==
  /\ today < MaxDay
  /\ today' = today + 1
  /\ UNCHANGED <<submissions, createdOn, dayLocks, acted, toggled, last>>

Health == GetHealth(Req("health", NoHeader, "", NoSid, NoBody)) /\ UNCHANGED slots
Today == \E req \in TodayRequests : GetToday(req) /\ UNCHANGED slots
Submit == \E req \in SubmitRequests : PostSubmission(req) /\ UNCHANGED slots
Skip == \E req \in SkipRequests : PostSkip(req) /\ UNCHANGED slots
RankingOf == \E req \in RankingRequests : GetRanking(req) /\ UNCHANGED slots
Like == \E req \in LikeRequests : PostLike(req) /\ UNCHANGED slots
Midnight == Tick /\ UNCHANGED slots

Next == Health \/ Today \/ Submit \/ Skip \/ RankingOf \/ Like \/ Midnight

Spec == Init /\ [][Next]_vars

\* ------------------------------------------------- requests in flight
\* Express dispatches the requests that have arrived one at a time, each
\* handler running to completion, in an order the clients do not control.
ConcRequests ==
  { Req("submit", "dev1", "2025-09-08", NoSid, [fillA |-> 1, fillB |-> 24]),
    Req("skip", "dev1", "2025-09-08", NoSid, NoBody) }
    \cup { Req("like", d, "", s, NoBody) : d \in Devices, s \in IdPool }

\* the router: the handler of the route the request matches
Serve(req) ==
  IF req.kind = "submit" THEN PostSubmission(req)
  ELSE IF req.kind = "skip" THEN PostSkip(req)
  ELSE IF req.kind = "like" THEN PostLike(req)
  ELSE IF req.kind = "ranking" THEN GetRanking(req)
  ELSE IF req.kind = "today" THEN GetToday(req)
  ELSE GetHealth(req)

Waiting(req) == [state |-> "waiting", req |-> req, answer |-> NoExchange, nth |-> 0]

\* two requests arrive before either is handled
Arrive ==
  /\ \A i \in Slots : slots[i].state # "waiting"
  /\ \E r1, r2 \in ConcRequests :
       slots' = [i \in Slots |-> IF i = 1 THEN Waiting(r1) ELSE Waiting(r2)]
  /\ UNCHANGED <<submissions, createdOn, dayLocks, acted, toggled, today, last>>

\* the event loop runs the handler of one waiting request
HandleSlot(i) ==
  /\ slots[i].state = "waiting"
  /\ Serve(slots[i].req)
  /\ slots' =
       [slots EXCEPT
          ![i] = [state |-> "answered", req |-> slots[i].req, answer |-> last',
                  nth |-> 1 + Cardinality({j \in Slots : slots[j].state = "answered"})]]

Handle == \E i \in Slots : HandleSlot(i)

NextConc == Arrive \/ Handle \/ Midnight

SpecConc == Init /\ [][NextConc]_vars

\* ------------------------------------------------------------ properties
LastDevice == DeviceIdOf(last.req.header)
LastKey == <<last.req.id, LastDevice, last.day>>

\* a request of the given kind that carried the header and named a quote
\* of the catalogue
Gated(kind) ==
  /\ last.req.kind = kind
  /\ LastDevice # Null
  /\ last.req.id \in DOMAIN quotes

\* C1: once a submit or a skip for (q,d) has succeeded on day D, a later
\* submit for (q,d) on day D, whatever its body, is answered 409 and
\* creates no submission.
C1_SecondSubmitIs409 ==
  (Gated("submit") /\ LastKey \in last.pre.acted)
    => /\ last.status = 409
       /\ submissions = last.pre.submissions

C1_Witness ==
  /\ Gated("submit")
  /\ LastKey \in last.pre.acted
  /\ SafeParse(last.req.body)
  /\ last.status = 409
  /\ Len(submissions) = 1

\* C2: once a submit or a skip for (q,d) has succeeded on day D, a later
\* skip for (q,d) on day D fails with a conflict instead of succeeding.
C2_SecondSkipConflicts ==
  (Gated("skip") /\ LastKey \in last.pre.acted) => last.status = 409

\* C3: the store holds at most one submission per (quoteId, deviceId, day of
\* creation), and a submit that succeeds creates its submission on a day on
\* which the device had not yet submitted or skipped for that quote.
C3_OnePerQuoteDeviceDay ==
  /\ \A i, j \in 1..Len(submissions) :
       (/\ submissions[i].quoteId = submissions[j].quoteId
        /\ submissions[i].deviceId = submissions[j].deviceId
        /\ createdOn[i] = createdOn[j]) => i = j
  /\ (last.req.kind = "submit" /\ last.status = 201)
       => <<last.req.id, LastDevice, createdOn[Len(createdOn)]>>
            \notin last.pre.acted

C3_Witness ==
  /\ Len(submissions) = 2
  /\ submissions[1].quoteId = submissions[2].quoteId
  /\ submissions[1].deviceId = submissions[2].deviceId
  /\ createdOn[1] # createdOn[2]
  /\ Gated("submit")
  /\ SafeParse(last.req.body)
  /\ last.status = 409

\* C4: a lock of an earlier day does not block today: while the device has
\* had no successful submit or skip for the quote today, a submit with a
\* valid body is answered 201, a skip 204, and GET /quotes/today reports
\* locked:false.
C4_NewDayIsOpen ==
  /\ (Gated("submit") /\ SafeParse(last.req.body) /\ LastKey \notin last.pre.acted)
       => last.status = 201
  /\ (Gated("skip") /\ LastKey \notin last.pre.acted) => last.status = 204
  /\ (/\ last.req.kind = "today"
      /\ LastDevice # Null
      /\ <<"2025-09-08", LastDevice, last.day>> \notin last.pre.acted)
       => last.out.locked = FALSE

C4_Witness ==
  /\ Gated("submit")
  /\ last.day > 0
  /\ <<last.req.id, LastDevice, last.day - 1>> \in last.pre.acted
  /\ LastKey \notin last.pre.acted
  /\ last.status = 201

\* C5: a submit answered 201 has appended exactly one submission (fresh id,
\* empty like-set, the caller's deviceId, the requested quoteId) and added
\* exactly the lock of (q,d,day); a submit answered 400, 404 or 409 has
\* changed neither the submissions nor the locks.
C5_SubmitAllOrNothing ==
  /\ (last.req.kind = "submit" /\ last.status = 201)
       => /\ Len(submissions) = Len(last.pre.submissions) + 1
          /\ SubSeq(submissions, 1, Len(last.pre.submissions))
               = last.pre.submissions
          /\ LET s == submissions[Len(submissions)]
             IN  /\ s.id = last.out.id
                 /\ s.id \notin Ids(last.pre.submissions)
                 /\ s.likes = {}
                 /\ s.deviceId = last.req.header
                 /\ s.quoteId = last.req.id
          /\ <<last.req.id, LastDevice, last.endDay>> \notin last.pre.acted
          /\ dayLocks # last.pre.dayLocks
          /\ dayLocks = last.pre.dayLocks
                          \cup {dayKey(last.req.id, LastDevice, last.endDay)}
  /\ (last.req.kind = "submit" /\ last.status \in {400, 404, 409})
       => /\ submissions = last.pre.submissions
          /\ dayLocks = last.pre.dayLocks
  /\ last.req.kind = "submit" => last.status \in {201, 400, 404, 409}

C5_Witness ==
  /\ last.req.kind = "submit"
  /\ last.status = 201
  /\ Len(last.pre.submissions) = 1
  /\ last.pre.dayLocks # {}

\* C10: GET /quotes/today without the device header (or with an empty one)
\* reports locked:false whatever locks exist; with the header of device d it
\* reports locked:true exactly when d has had a successful submit or skip
\* for today's quote on the current day.
C10_TodayLocked ==
  last.req.kind = "today"
    => /\ last.status = 200
       /\ last.req.header \in {NoHeader, ""} => last.out.locked = FALSE
       /\ last.req.header \in Devices
            => (last.out.locked
                  <=> <<"2025-09-08", last.req.header, last.day>> \in last.pre.acted)

C10_Witness ==
  /\ last.req.kind = "today"
  /\ last.req.header = NoHeader
  /\ last.out.locked = FALSE
  /\ \A d \in Devices : <<"2025-09-08", d, last.day>> \in last.pre.acted

C10_WitnessLocked ==
  /\ last.req.kind = "today"
  /\ last.req.header \in Devices
  /\ last.out.locked


\* ------------------------------------------- properties of SpecConc
BothAnswered == \A i \in Slots : slots[i].state = "answered"
First == CHOOSE i \in Slots : slots[i].nth = 1
Second == CHOOSE i \in Slots : slots[i].nth = 2
LikesOf(subs, sid) == subs[IndexOf(subs, sid)].likes

\* two submits of one device for one quote, in flight together and handled
\* with no midnight between the two handlers
TwoSubmits ==
  /\ BothAnswered
  /\ \A i \in Slots : slots[i].req.kind = "submit"
  /\ slots[1].req.header = slots[2].req.header
  /\ slots[1].req.id = slots[2].req.id
  /\ slots[Second].answer.day = slots[First].answer.endDay

\* C6: of two submits for the same (quote, device) handled concurrently on
\* one day, at most one is answered 201; if the key was open when the first
\* was handled, exactly one is answered 201, the other 409, and exactly one
\* submission has been stored.
C6_OneWinner ==
  TwoSubmits =>
    LET a == slots[First].answer
        b == slots[Second].answer
        key == <<a.req.id, DeviceIdOf(a.req.header), a.day>>
    IN  /\ ~(a.status = 201 /\ b.status = 201)
        /\ b.status = 409
        /\ key \notin a.pre.acted
             => /\ a.status = 201
                /\ Len(submissions) = Len(a.pre.submissions) + 1
                /\ b.pre.submissions = submissions
        /\ key \in a.pre.acted
             => /\ a.status = 409
                /\ submissions = a.pre.submissions

C6_Witness ==
  /\ TwoSubmits
  /\ slots[First].answer.status = 201
  /\ slots[Second].answer.status = 409
  /\ Len(submissions) = 2

\* two likes of one stored submission, in flight together
TwoLikes ==
  /\ BothAnswered
  /\ \A i \in Slots : slots[i].req.kind = "like"
  /\ slots[1].req.sid = slots[2].req.sid
  /\ slots[1].req.sid \in Ids(slots[First].answer.pre.submissions)

\* C7: after two concurrent like-toggles of different devices on the same
\* submission, the membership of each of the two devices in the like-set
\* is flipped relative to the state before both, in either handling order.
C7_NoLostToggle ==
  (TwoLikes /\ slots[1].req.header # slots[2].req.header) =>
    LET sid == slots[1].req.sid
        before == LikesOf(slots[First].answer.pre.submissions, sid)
        after == LikesOf(submissions, sid)
    IN  /\ \A i \in Slots : slots[i].answer.status = 200
        /\ \A i \in Slots :
             (slots[i].req.header \in after) # (slots[i].req.header \in before)
        /\ \A d \in Devices \ {slots[1].req.header, slots[2].req.header} :
             (d \in after) = (d \in before)

C7_Witness ==
  /\ TwoLikes
  /\ slots[1].req.header # slots[2].req.header
  /\ LikesOf(slots[First].answer.pre.submissions, slots[1].req.sid)
       = {slots[Second].req.header}
  /\ LikesOf(submissions, slots[1].req.sid) = {slots[First].req.header}

\* C8: two consecutive successful like-toggles by one device on one
\* submission restore the like-set, hence the like count and every
\* device's membership; the counts reported are n+1 or n-1, then n.
C8_ToggleTwice ==
  (TwoLikes /\ slots[1].req.header = slots[2].req.header) =>
    LET sid == slots[1].req.sid
        d == slots[1].req.header
        before == LikesOf(slots[First].answer.pre.submissions, sid)
        n == Cardinality(before)
        a == slots[First].answer
        b == slots[Second].answer
    IN  /\ a.status = 200 /\ b.status = 200
        /\ a.out.likes = IF d \in before THEN n - 1 ELSE n + 1
        /\ b.out.likes = n
        /\ LikesOf(submissions, sid) = before
        /\ submissions = a.pre.submissions

C8_Witness ==
  /\ TwoLikes
  /\ slots[1].req.header = slots[2].req.header
  /\ Cardinality(LikesOf(slots[First].answer.pre.submissions, slots[1].req.sid)) = 1
  /\ slots[First].answer.out.likes = 2
  /\ slots[Second].answer.out.likes = 1

C8_WitnessUnlike ==
  /\ TwoLikes
  /\ slots[1].req.header = slots[2].req.header
  /\ slots[First].answer.out.likes = 0
  /\ slots[Second].answer.out.likes = 1


\* ------------------------------------------------ the ranking on its own
\* Stores as the handlers leave them: up to MaxRank submissions made on
\* day 0 by different devices, each with an id of its own, liked by nobody,
\* by dev1 or by both of Devices; then the ranking of every quote id is
\* asked for.
RankIds ==
  IdPool \cup
  { <<86, 49, 83, 116, 71, 88, 82, 56, 45, 90, 53, 106>>,    \* V1StGXR8-Z5j
    <<95, 49, 83, 116, 71, 88, 82, 56, 45, 90, 53, 106>> }   \* _1StGXR8-Z5j
RankDevices == <<"dev1", "dev2", "dev3", "dev4">>
RankQuoteIds == {"2025-09-08", "constructor"}
RankLikes == { {}, {"dev1"}, Devices }

Injective(f) == \A i, j \in DOMAIN f : f[i] = f[j] => i = j

RankStore(ids, qs, ls) ==
  [i \in DOMAIN ids |->
     [id |-> ids[i], quoteId |-> qs[i], deviceId |-> RankDevices[i],
      fillA |-> 1, fillB |-> 24, likes |-> ls[i]]]

InitRank ==
  /\ \E n \in 0..MaxRank :
       \E ids \in [1..n -> RankIds], qs \in [1..n -> RankQuoteIds],
          ls \in [1..n -> RankLikes] :
         /\ Injective(ids)
         /\ submissions = RankStore(ids, qs, ls)
  /\ createdOn = [i \in 1..Len(submissions) |-> 0]
  /\ toggled = UNION { { <<submissions[i].id, d>> : d \in submissions[i].likes } :
                         i \in 1..Len(submissions) }
  /\ acted = { <<submissions[i].quoteId, submissions[i].deviceId, 0>> :
                 i \in 1..Len(submissions) }
  /\ dayLocks = { dayKey(submissions[i].quoteId, submissions[i].deviceId, 0) :
                    i \in 1..Len(submissions) }
  /\ today = 0
  /\ last = NoExchange
  /\ slots = [i \in Slots |-> Idle]

RankAny ==
  \E q \in RankQuoteIds \cup {"does-not-exist"} :
    GetRanking(Req("ranking", NoHeader, q, NoSid, NoBody)) /\ UNCHANGED slots

NextRank == RankAny

SpecRank == InitRank /\ [][NextRank]_vars

\* a > b for strings, said without recursion: they differ first at a
\* position where a has the larger code unit, or b is a proper prefix of a
IdGreater(a, b) ==
  \/ \E k \in 1..Len(a) :
       /\ k <= Len(b)
       /\ a[k] > b[k]
       /\ \A m \in 1..(k - 1) : a[m] = b[m]
  \/ /\ Len(b) < Len(a)
     /\ \A m \in 1..Len(b) : a[m] = b[m]

Orderings(n) == { f \in [1..n -> 1..n] : Injective(f) }

WideQuoteIds == QuoteIds \cup ObjectPrototypeKeys
WideHeaders == {NoHeader, "dev1"}

SubmitWide ==
  \E h \in WideHeaders, q \in WideQuoteIds, b \in Bodies :
    PostSubmission(Req("submit", h, q, NoSid, b)) /\ UNCHANGED slots
SkipWide ==
  \E h \in WideHeaders, q \in WideQuoteIds :
    PostSkip(Req("skip", h, q, NoSid, NoBody)) /\ UNCHANGED slots
RankingWide ==
  \E q \in WideQuoteIds :
    GetRanking(Req("ranking", NoHeader, q, NoSid, NoBody)) /\ UNCHANGED slots

NextWide == SubmitWide \/ SkipWide \/ RankingWide \/ Midnight

SpecWide == Init /\ [][NextWide]_vars

\* C11: a skip never creates a submission; without the header it is
\* answered 400 and for an id that is no quote of the catalogue 404, neither
\* setting a lock; from the open state, with the header and a quote of the
\* catalogue, it is answered 204 and adds the lock of (q,d,today).
C11_SkipContract ==
  last.req.kind = "skip" =>
    /\ submissions = last.pre.submissions
    /\ LastDevice = Null
         => last.status = 400 /\ dayLocks = last.pre.dayLocks
    /\ (LastDevice # Null /\ last.req.id \notin DOMAIN quotes)
         => last.status = 404 /\ dayLocks = last.pre.dayLocks
    /\ (Gated("skip") /\ LastKey \notin last.pre.acted)
         => /\ last.status = 204
            /\ dayLocks # last.pre.dayLocks
            /\ dayLocks = last.pre.dayLocks
                            \cup {dayKey(last.req.id, LastDevice, last.day)}

\* ------------------------------------------------- the shapes of a body
\* each field absent, or a string of a length at and next to the limits
FillLens == {Missing, MinFill - 1, MinFill, MaxFill, MaxFill + 1}
FillBodies == { [fillA |-> a, fillB |-> b] : a, b \in FillLens }
BodyRequests ==
  { Req("submit", "dev1", "2025-09-08", NoSid, b) : b \in FillBodies }

RetryRequest ==
  Req("submit", "dev1", "2025-09-08", NoSid, [fillA |-> MaxFill, fillB |-> MinFill])

\* a submit of any shape and a valid one of the same device arrive, to be
\* handled one after the other in either order
ArriveBodies ==
  /\ \A i \in Slots : slots[i].state # "waiting"
  /\ \E r1 \in BodyRequests :
       slots' = [i \in Slots |-> IF i = 1 THEN Waiting(r1) ELSE Waiting(RetryRequest)]
  /\ UNCHANGED <<submissions, createdOn, dayLocks, acted, toggled, today, last>>

NextBody == ArriveBodies \/ Handle \/ Midnight

SpecBody == Init /\ [][NextBody]_vars

\* C12: a submit from the open state, with the header and for a quote of
\* the catalogue, is answered 201 exactly when fillA and fillB are both
\* present with a length from 1 to 24; otherwise it is answered 400 and
\* changes no lock and no submission, and when it is followed on the same
\* day by a submit with a valid body, that one is answered 201.
C12_BodyDecides ==
  /\ (Gated("submit") /\ LastKey \notin last.pre.acted)
       => LET ok == /\ last.req.body.fillA \in 1..24
                    /\ last.req.body.fillB \in 1..24
          IN /\ last.status = 201 <=> ok
             /\ ~ok => /\ last.status = 400
                       /\ dayLocks = last.pre.dayLocks
                       /\ acted = last.pre.acted
                       /\ submissions = last.pre.submissions
  /\ (/\ BothAnswered
      /\ slots[First].req \in BodyRequests
      /\ slots[First].answer.status = 400
      /\ slots[Second].answer.day = slots[First].answer.day
      /\ slots[Second].req.body.fillA \in 1..24
      /\ slots[Second].req.body.fillB \in 1..24)
       => slots[Second].answer.status = 201

C12_Witness ==
  /\ BothAnswered
  /\ slots[First].req.body = [fillA |-> 25, fillB |-> 1]
  /\ slots[First].answer.status = 400
  /\ slots[Second].req.body = [fillA |-> 24, fillB |-> 1]
  /\ slots[Second].answer.day = slots[First].answer.day
  /\ slots[Second].answer.status = 201
  /\ Len(submissions) = 2

\* C13: locking is idempotent: adding a key that the registry holds gives
\* the registry back unchanged, and a request that locks a
\* (quote, device, day) whose key is already in the registry leaves the set
\* of locks exactly as it was.
C13_RelockIdempotent ==
  /\ \A k \in dayLocks : AddLock(dayLocks, k) = dayLocks
  /\ (/\ last.req.kind = "skip"
      /\ last.status = 204
      /\ dayKey(last.req.id, LastDevice, last.day) \in last.pre.dayLocks)
       => dayLocks = last.pre.dayLocks

C13_Witness ==
  /\ last.req.kind = "skip"
  /\ last.status = 204
  /\ dayKey(last.req.id, LastDevice, last.day) \in last.pre.dayLocks
  /\ Cardinality(last.pre.dayLocks) = 2
  /\ dayLocks = last.pre.dayLocks

\* C14: the answer to a submit is that of the first failing check in the
\* order header, quote, lock, body: without the header it is 400 also for
\* an id that is no quote; with the header and an id that is no quote of the
\* catalogue it is 404 also when the body is invalid; with the header, a
\* quote of the catalogue and the key locked it is 409 also when the body is
\* invalid.
C14_FirstFailingCheck ==
  last.req.kind = "submit" =>
    /\ LastDevice = Null
         => last.status = 400 /\ last.out = Message("X-Device-Id header required")
    /\ (LastDevice # Null /\ last.req.id \notin DOMAIN quotes)
         => last.status = 404
    /\ (Gated("submit")
          /\ HasLock(last.pre.dayLocks, dayKey(last.req.id, LastDevice, last.day)))
         => last.status = 409

\* C15: no request removes a lock: every key that was in the registry when
\* the last request came in is still in it (the clock alone changes no
\* lock), so a (quote, device, day) that is locked stays locked for the
\* rest of the day; and a GET /quotes/today of a device whose key for
\* today was in the registry reports locked: true.
C15_NoUnlock ==
  /\ last.pre.dayLocks \subseteq dayLocks
  /\ last.pre.acted \subseteq acted
  /\ \A k \in acted : dayKey(k[1], k[2], k[3]) \in dayLocks
  /\ (/\ last.req.kind = "today"
      /\ last.req.header \in Devices
      /\ HasLock(last.pre.dayLocks,
                 dayKey("2025-09-08", last.req.header, last.day)))
       => last.out.locked = TRUE

C15_Witness ==
  /\ last.req.kind = "today"
  /\ last.req.header = "dev1"
  /\ last.out.locked = TRUE
  /\ Len(submissions) = 2
  /\ \E i \in 1..Len(submissions) : submissions[i].likes # {}
  /\ Cardinality(dayLocks) = 3

\* C16: a submit uses one day throughout: the key it locks is the key it
\* found unlocked, so every stored submission of (q,d) created on day D has
\* the lock of (q,d,D) in the registry, also when midnight passes while the
\* request is handled.
C16_OneDayPerSubmit ==
  /\ (last.req.kind = "submit" /\ last.status = 201)
       => /\ last.endDay = last.day
          /\ dayLocks = last.pre.dayLocks
                          \cup {dayKey(last.req.id, LastDevice, last.day)}
  /\ \A i \in 1..Len(submissions) :
       HasLock(dayLocks,
               dayKey(submissions[i].quoteId, submissions[i].deviceId, createdOn[i]))

\* ------------------------------------------------------ likes of two devices
\* one device submits; likes come with every header value, for every id of
\* the pool (stored or not yet) and for an id that is never stored
LikeAnyRequests ==
  { Req("like", h, "", s, NoBody) : h \in Headers, s \in IdPool \cup {UnknownSid} }

SubmitOne ==
  PostSubmission(Req("submit", "dev1", "2025-09-08", NoSid,
                     [fillA |-> MinFill, fillB |-> MaxFill]))
    /\ UNCHANGED slots
LikeAny == \E req \in LikeAnyRequests : PostLike(req) /\ UNCHANGED slots

NextLike == SubmitOne \/ LikeAny \/ Midnight

SpecLike == Init /\ [][NextLike]_vars

\* C17: a like without the header is answered 400 and one for an id that
\* is not stored 404, both leaving submissions and locks as they were; a
\* like by device d for a stored submission s is answered 200 with the
\* size of s's like-set after d's membership in it has been flipped, and
\* changes nothing else: no other membership, no other submission, no field
\* of s, no lock.  So the like-set of every stored submission is the set of
\* devices with an odd number of successful likes for it.
C17_LikeTogglesOne ==
  /\ last.req.kind = "like" =>
       /\ dayLocks = last.pre.dayLocks
       /\ acted = last.pre.acted
       /\ LastDevice = Null
            => last.status = 400 /\ submissions = last.pre.submissions
       /\ (LastDevice # Null /\ last.req.sid \notin Ids(last.pre.submissions))
            => last.status = 404 /\ submissions = last.pre.submissions
       /\ (LastDevice # Null /\ last.req.sid \in Ids(last.pre.submissions))
            => /\ last.status = 200
               /\ Len(submissions) = Len(last.pre.submissions)
               /\ \A i \in 1..Len(submissions) :
                    LET was == last.pre.submissions[i]
                    IN  IF was.id = last.req.sid
                          THEN /\ submissions[i] =
                                    [was EXCEPT !.likes =
                                       (was.likes \ {LastDevice})
                                         \cup ({LastDevice} \ was.likes)]
                               /\ last.out = [likes |-> Cardinality(submissions[i].likes)]
                          ELSE submissions[i] = was
  /\ \A i \in 1..Len(submissions) :
       /\ submissions[i].likes =
            {d \in Devices : <<submissions[i].id, d>> \in toggled}
       /\ \A p \in toggled : p[1] = submissions[i].id => p[2] \in Devices

C17_Witness ==
  /\ last.req.kind = "like"
  /\ last.req.header = "dev1"
  /\ last.status = 200
  /\ last.out = [likes |-> 1]
  /\ Len(submissions) = 2
  /\ \E i, j \in 1..2 :
       /\ submissions[i].id = last.req.sid
       /\ last.pre.submissions[i].likes = Devices
       /\ submissions[i].likes = {"dev2"}
       /\ j # i
       /\ submissions[j].likes = {"dev1"}

\* C18: no request deletes or edits a stored submission: every record that
\* was stored when the last request came in is still stored, in its place,
\* with the same id, quoteId, deviceId, fillA and fillB; its like-set differs
\* only after a like; a submit adds at most one record, at the end, with an
\* empty like-set; skip, GET today and GET ranking leave the store as it was,
\* and the two GETs leave the lock registry as it was too.
C18_StoreOnlyGrows ==
  /\ Len(submissions) >= Len(last.pre.submissions)
  /\ \A i \in 1..Len(last.pre.submissions) :
       /\ submissions[i].id = last.pre.submissions[i].id
       /\ submissions[i].quoteId = last.pre.submissions[i].quoteId
       /\ submissions[i].deviceId = last.pre.submissions[i].deviceId
       /\ submissions[i].fillA = last.pre.submissions[i].fillA
       /\ submissions[i].fillB = last.pre.submissions[i].fillB
       /\ last.req.kind # "like"
            => submissions[i].likes = last.pre.submissions[i].likes
  /\ last.req.kind # "submit" => Len(submissions) = Len(last.pre.submissions)
  /\ last.req.kind = "submit"
       => /\ Len(submissions) <= Len(last.pre.submissions) + 1
          /\ last.status = 201 <=> Len(submissions) = Len(last.pre.submissions) + 1
          /\ last.status = 201 => submissions[Len(submissions)].likes = {}
  /\ last.req.kind \in {"skip", "today", "ranking", "health"}
       => submissions = last.pre.submissions
  /\ last.req.kind \in {"today", "ranking", "health"}
       => dayLocks = last.pre.dayLocks /\ acted = last.pre.acted

C18_Witness ==
  /\ last.req.kind = "submit"
  /\ last.status = 201
  /\ Len(submissions) = 2
  /\ submissions[1].deviceId = LastDevice
  /\ submissions[1].likes # {}
  /\ submissions[1] = last.pre.submissions[1]

\* C19: GET /quotes/:id/ranking is answered 200 with one item for each
\* stored submission whose quoteId is that id and no other item; an item
\* has the submission's id, quoteId, fillA and fillB and, as likes, the
\* size of its like-set, and nothing else (no deviceId, no device of a
\* like); for an id that no stored submission has, a quote or not, the list
\* is empty.
C19_RankingContent ==
  last.req.kind = "ranking" =>
    LET items == last.out.items
        subs == last.pre.submissions
        mine == {i \in 1..Len(subs) : subs[i].quoteId = last.req.id}
    IN  /\ last.status = 200
        /\ Len(items) = Cardinality(mine)
        /\ \A i \in mine :
             \E k \in 1..Len(items) :
               items[k] = [id |-> subs[i].id, quoteId |-> subs[i].quoteId,
                           fillA |-> subs[i].fillA, fillB |-> subs[i].fillB,
                           likes |-> Cardinality(subs[i].likes)]
        /\ \A k \in 1..Len(items) :
             /\ DOMAIN items[k] = {"id", "quoteId", "fillA", "fillB", "likes"}
             /\ items[k].quoteId = last.req.id
             /\ items[k].likes \in Nat
        /\ \A k1, k2 \in 1..Len(items) : items[k1].id = items[k2].id => k1 = k2
        /\ mine = {} => items = <<>>

C19_Witness ==
  /\ last.req.kind = "ranking"
  /\ last.req.id = "constructor"
  /\ Len(last.pre.submissions) = 3
  /\ Len(last.out.items) = 2
  /\ last.pre.submissions[2].quoteId = "2025-09-08"
  /\ last.pre.submissions[2].likes = Devices
  /\ \E k \in 1..2 : last.out.items[k].likes = 1

C19_WitnessEmpty ==
  /\ last.req.kind = "ranking"
  /\ last.req.id = "does-not-exist"
  /\ Len(last.pre.submissions) = 3
  /\ last.status = 200
  /\ last.out.items = <<>>

====
